---- MODULE Spec2Model ----
(***************************************************************************)
(* Model of the IFS WhatsApp AI voice agent: the knowledge loader          *)
(* (knowledge.py), the call-summary notifier (hooks.py), the event         *)
(* handlers of a bot session (bot.py) and the HTTP server with its         *)
(* process lifecycle (server.py).                                          *)
(*                                                                         *)
(* Strings are sequences of one-character strings, so that strip(),        *)
(* upper(), sorted() and join() are computed rather than assumed.          *)
(***************************************************************************)
EXTENDS Integers, Sequences, FiniteSets, TLC

VARIABLES
    \* ---- file system (knowledge.py) ----
    dirExists,          \* KNOWLEDGE_DIR.exists()
    dir,                \* file name -> [present, readable, text]
    kpc,                \* position of a stand-alone load_knowledge() call
    loaded,             \* its outcome: [raised, value]
    \* ---- one bot session (bot.py, hooks.py) ----
    hookUrl,            \* N8N_CALL_HOOK_URL ("" when not configured)
    call_metadata,      \* [connected_at, disconnected_at], 0 is None
    events,             \* transport events delivered so far
    handlers,           \* one handler invocation per delivered event
    cancelRequests,     \* number of task.cancel() calls
    queuedFrames,       \* number of LLMRunFrame batches queued
    notifications,      \* invocations of send_call_summary
    \* ---- server process (server.py) ----
    whatsapp_client,    \* global: "None" | "client"
    shutdown_event,     \* global asyncio.Event
    knowledge_context,  \* global string
    should_exit,        \* server.should_exit
    pcMain,             \* position of run_server
    lifespanPc,         \* position of lifespan
    serverState,        \* state of the uvicorn server task
    sigRunning,         \* history: the first signal reached the running server
    termLog,            \* history: callers of terminate_all_calls, in order
    reqs,               \* webhook requests
    calls,              \* calls accepted by the external client
    clientInvocations,  \* calls of whatsapp_client.handle_webhook_request
    loads               \* calls of load_knowledge made by the server

kvars == <<dirExists, dir, kpc, loaded>>
bvars == <<hookUrl, call_metadata, events, handlers, cancelRequests,
           queuedFrames, notifications>>
svars == <<whatsapp_client, shutdown_event, knowledge_context, should_exit,
           pcMain, lifespanPc, serverState, sigRunning, termLog, reqs, calls,
           clientInvocations, loads>>
vars == <<kvars, bvars, svars>>

(***************************************************************************)
(* Bounds                                                                  *)
(***************************************************************************)
MaxContentLen == 3      \* longest file content enumerated
MaxEvents == 3          \* transport events delivered to one session
MaxRequests == 2        \* webhook requests (POST /)
MaxCalls == 2           \* calls accepted by the external client

(***************************************************************************)
(* Strings                                                                 *)
(***************************************************************************)
Chars == {" ", "x"}
Whitespace == {" ", "\n"}

\* code points of the characters that occur in file names
Ord(c) ==
    CASE c = "." -> 46
      [] c = "A" -> 65
      [] c = "B" -> 66
      [] c = "a" -> 97
      [] c = "b" -> 98
      [] c = "d" -> 100
      [] c = "m" -> 109
      [] c = "t" -> 116
      [] c = "x" -> 120
      [] OTHER -> 0

\* str.upper(), one character
UpperChar(c) ==
    CASE c = "a" -> "A"
      [] c = "b" -> "B"
      [] c = "d" -> "D"
      [] c = "m" -> "M"
      [] c = "t" -> "T"
      [] c = "x" -> "X"
      [] OTHER -> c

Upper(s) == [i \in 1..Len(s) |-> UpperChar(s[i])]

RECURSIVE LStrip(_)
LStrip(s) ==
    IF s = <<>> THEN <<>>
    ELSE IF Head(s) \in Whitespace THEN LStrip(Tail(s)) ELSE s

RECURSIVE RStrip(_)
RStrip(s) ==
    IF s = <<>> THEN <<>>
    ELSE IF s[Len(s)] \in Whitespace THEN RStrip(SubSeq(s, 1, Len(s) - 1))
         ELSE s

\* str.strip()
Strip(s) == RStrip(LStrip(s))

\* ordering of two names, code point by code point (str < str)
RECURSIVE StrLess(_, _)
StrLess(s, t) ==
    IF t = <<>> THEN FALSE
    ELSE IF s = <<>> THEN TRUE
    ELSE IF Ord(Head(s)) < Ord(Head(t)) THEN TRUE
    ELSE IF Ord(Head(s)) > Ord(Head(t)) THEN FALSE
    ELSE StrLess(Tail(s), Tail(t))

(***************************************************************************)
(* knowledge.py                                                            *)
(***************************************************************************)
\* the names a knowledge directory may hold; three match "*.md"
FileA == <<"a", ".", "m", "d">>
FileB == <<"b", ".", "m", "d">>
FileUpperB == <<"B", ".", "m", "d">>
FileTxt == <<"a", ".", "t", "x", "t">>
FileNames == {FileA, FileB, FileUpperB, FileTxt}

RECURSIVE SeqsUpTo(_)
SeqsUpTo(n) ==
    IF n = 0 THEN {<<>>}
    ELSE LET shorter == SeqsUpTo(n - 1)
         IN  shorter \cup {Append(s, c) : s \in shorter, c \in Chars}

Contents == SeqsUpTo(MaxContentLen)
Absent == [present |-> FALSE, readable |-> FALSE, text |-> <<>>]
Unreadable == [present |-> TRUE, readable |-> FALSE, text |-> <<>>]
File(text) == [present |-> TRUE, readable |-> TRUE, text |-> text]
FileStates == {Absent, Unreadable} \cup {File(text) : text \in Contents}

\* position of the last "." of a name, 0 when there is none
LastDot(f) ==
    LET dots == {i \in 1..Len(f) : f[i] = "."}
    IN  IF dots = {} THEN 0 ELSE CHOOSE i \in dots : \A j \in dots : j <= i

\* Path.stem
Stem(f) == IF LastDot(f) <= 1 THEN f ELSE SubSeq(f, 1, LastDot(f) - 1)

\* Path.suffix
Suffix(f) == IF LastDot(f) <= 1 THEN <<>> ELSE SubSeq(f, LastDot(f), Len(f))

\* KNOWLEDGE_DIR.glob("*.md")
Glob(d) == {f \in FileNames : d[f].present /\ Suffix(f) = <<".", "m", "d">>}

\* a plausible slip: the files in directory order (here: descending)
RECURSIVE UnsortedFiles(_)
UnsortedFiles(S) ==
    IF S = {} THEN <<>>
    ELSE LET last == CHOOSE f \in S : \A g \in S \ {f} : StrLess(g, f)
         IN  <<last>> \o UnsortedFiles(S \ {last})

\* sorted(...): ascending by name
RECURSIVE SortedFiles(_)
SortedFiles(S) ==
    IF S = {} THEN <<>>
    ELSE LET first == CHOOSE f \in S : \A g \in S \ {f} : StrLess(f, g)
         IN  <<first>> \o SortedFiles(S \ {first})

\* md_file.read_text(encoding="utf-8"): the text, or an exception
ReadText(d, f) ==
    IF ~d[f].readable THEN [ok |-> FALSE, text |-> <<>>]
    ELSE [ok |-> TRUE, text |-> d[f].text]

\* f"--- {md_file.stem.upper()} ---\n{content}"
Document(f, content) ==
    <<"-", "-", "-", " ">> \o Upper(Stem(f)) \o <<" ", "-", "-", "-", "\n">>
        \o content

\* the body of the for loop: try / read / strip / append / except
RECURSIVE LoadDocuments(_, _, _)
LoadDocuments(files, d, documents) ==
    IF files = <<>> THEN documents
    ELSE LET md_file == Head(files)
             read == ReadText(d, md_file)
             content == Strip(read.text)
         IN  IF read.ok /\ content # <<>>
             THEN LoadDocuments(Tail(files), d,
                                Append(documents, Document(md_file, content)))
             ELSE LoadDocuments(Tail(files), d, documents)

\* "\n\n".join(documents)
RECURSIVE Join(_)
Join(documents) ==
    IF documents = <<>> THEN <<>>
    ELSE IF Len(documents) = 1 THEN documents[1]
    ELSE documents[1] \o <<"\n", "\n">> \o Join(Tail(documents))

\* load_knowledge(): [raised, value]
LoadKnowledge(exists, d) ==
    IF ~exists THEN [raised |-> FALSE, value |-> <<>>]
    ELSE LET documents == LoadDocuments(SortedFiles(Glob(d)), d, <<>>)
         IN  IF documents = <<>> THEN [raised |-> FALSE, value |-> <<>>]
             ELSE [raised |-> FALSE, value |-> Join(documents)]

\* ---- a stand-alone call of the loader on an arbitrary directory ----
NoDir == [f \in FileNames |-> Absent]

KnowledgeDirs ==
    {d \in [FileNames -> FileStates] : d[FileTxt] \in {Absent, File(<<"x">>)}}

KLoad ==
    /\ kpc = "idle"
    /\ loaded' = LoadKnowledge(dirExists, dir)
    /\ kpc' = "done"
    /\ UNCHANGED <<dirExists, dir, bvars, svars>>

(***************************************************************************)
(* hooks.py: send_call_summary                                             *)
(***************************************************************************)
NoUrl == ""
SomeUrl == "https://n8n/hook"
PostOutcomes == {"200", "non200", "connection_error", "timeout"}

\* lines 22-34, up to the await of session.post: [state, posts, payload]
SendCallSummaryBegin(url, metadata) ==
    IF url = NoUrl
    THEN [state |-> "returned", posts |-> 0,
          payload |-> [event |-> "none", connected_at |-> 0,
                       disconnected_at |-> 0]]
    ELSE [state |-> "posting", posts |-> 1,
          payload |-> [event |-> "call_ended",
                       connected_at |-> metadata.connected_at,
                       disconnected_at |-> metadata.disconnected_at]]

\* a plausible slip: no try/except around the POST
SendCallSummaryEndUncaught(outcome) ==
    CASE outcome = "200" -> "returned"
      [] outcome = "non200" -> "returned"
      [] OTHER -> "raised"

\* lines 32-41, after the POST completed or failed: how the call ends
SendCallSummaryEnd(outcome) ==
    CASE outcome = "200" -> "returned"                \* logger.info
      [] outcome = "non200" -> "returned"             \* logger.warning
      [] outcome = "connection_error" -> "returned"   \* except: logger.error
      [] outcome = "timeout" -> "returned"            \* except: logger.error

(***************************************************************************)
(* bot.py: the two event handlers registered by run_bot                    *)
(***************************************************************************)
NoMetadata == [connected_at |-> 0, disconnected_at |-> 0]

\* datetime.now(): the clock advances with every delivered event
Now == Len(events) + 1

\* lines 122-125: try: await send_call_summary(...) except Exception: log
OnDisconnectedEnd(notifierState) ==
    CASE notifierState = "raised" -> "returned"
      [] OTHER -> "returned"

\* on_connected, lines 108-112, up to the await of task.queue_frames
OnConnected ==
    /\ Len(events) < MaxEvents
    /\ call_metadata' = [call_metadata EXCEPT !.connected_at = Now]
    /\ queuedFrames' = queuedFrames + 1
    /\ events' = Append(events, "connect")
    /\ handlers' = Append(handlers, [kind |-> "connect", pc |-> "queue_frames",
                                     at |-> Now, result |-> "running"])
    /\ UNCHANGED <<hookUrl, cancelRequests, notifications, kvars, svars>>

\* task.queue_frames returns: on_connected is over
QueueFramesReturn(i) ==
    /\ handlers[i].pc = "queue_frames"
    /\ handlers' = [handlers EXCEPT ![i].pc = "done", ![i].result = "returned"]
    /\ UNCHANGED <<hookUrl, call_metadata, events, cancelRequests,
                   queuedFrames, notifications, kvars, svars>>

\* on_disconnected, lines 115-119, up to the await of task.cancel
OnDisconnected ==
    /\ Len(events) < MaxEvents
    /\ call_metadata' = [call_metadata EXCEPT !.disconnected_at = Now]
    /\ cancelRequests' = cancelRequests + 1
    /\ events' = Append(events, "disconnect")
    /\ handlers' = Append(handlers, [kind |-> "disconnect", pc |-> "cancel",
                                     at |-> Now, result |-> "running"])
    /\ UNCHANGED <<hookUrl, queuedFrames, notifications, kvars, svars>>

\* the notifier is invoked with the dict as it is now (lines 122-123)
Invocation(i, begin) ==
    [handler |-> i, arg |-> call_metadata, eventsBefore |-> Len(events),
     cancelsBefore |-> cancelRequests, state |-> begin.state,
     posts |-> begin.posts, payload |-> begin.payload, outcome |-> "none"]

\* a plausible slip: only calls that were connected are reported
CancelReturnConnectedOnly(i) ==
    /\ handlers[i].pc = "cancel"
    /\ LET begin == SendCallSummaryBegin(hookUrl, call_metadata)
           skip == call_metadata.connected_at = 0
       IN  /\ notifications' = IF skip THEN notifications
                               ELSE Append(notifications, Invocation(i, begin))
           /\ handlers' = IF skip \/ begin.state = "returned"
                          THEN [handlers EXCEPT ![i].pc = "done",
                                    ![i].result = OnDisconnectedEnd("returned")]
                          ELSE [handlers EXCEPT ![i].pc = "post"]
    /\ UNCHANGED <<hookUrl, call_metadata, events, cancelRequests,
                   queuedFrames, kvars, svars>>

\* task.cancel() returns; on_disconnected goes on to lines 121-125 and calls
\* send_call_summary, which returns at once or suspends in the POST
CancelReturn(i) ==
    /\ handlers[i].pc = "cancel"
    /\ LET begin == SendCallSummaryBegin(hookUrl, call_metadata)
       IN  /\ notifications' = Append(notifications, Invocation(i, begin))
           /\ handlers' = IF begin.state = "returned"
                          THEN [handlers EXCEPT ![i].pc = "done",
                                    ![i].result =
                                        OnDisconnectedEnd(begin.state)]
                          ELSE [handlers EXCEPT ![i].pc = "post"]
    /\ UNCHANGED <<hookUrl, call_metadata, events, cancelRequests,
                   queuedFrames, kvars, svars>>

\* the POST of handler i ends with outcome o; send_call_summary and then
\* on_disconnected finish
PostDone(i, o) ==
    /\ handlers[i].pc = "post"
    /\ LET n == CHOOSE k \in 1..Len(notifications) :
                    notifications[k].handler = i
           end == SendCallSummaryEnd(o)
       IN  /\ notifications' = [notifications EXCEPT ![n].state = end,
                                                      ![n].outcome = o]
           /\ handlers' = [handlers EXCEPT ![i].pc = "done",
                               ![i].result = OnDisconnectedEnd(end)]
    /\ UNCHANGED <<hookUrl, call_metadata, events, cancelRequests,
                   queuedFrames, kvars, svars>>

(***************************************************************************)
(* server.py                                                               *)
(***************************************************************************)
Requests == 1..MaxRequests
Calls == 1..MaxCalls

\* the directories the knowledge files move between while the server runs
ServerDirs ==
    << [exists |-> TRUE, files |-> [NoDir EXCEPT ![FileA] = File(<<"x">>)]],
       [exists |-> TRUE,
        files |-> [NoDir EXCEPT ![FileA] = File(<<" ", "x">>),
                                ![FileB] = File(<<"x", " ", "x">>)]] >>

DirIx ==
    CHOOSE i \in 1..Len(ServerDirs) :
        ServerDirs[i] = [exists |-> dirExists, files |-> dir]

NoRequest ==
    [pc |-> "none", object |-> "none", status |-> 0, current_knowledge |-> <<>>,
     dirIx |-> 0, loaded |-> 0, clientCalls |-> 0, tasks |-> <<>>,
     background |-> "none", next |-> 1]

NoCall ==
    [state |-> "free", conn |-> "none", req |-> 0, bot |-> "none",
     knowledge |-> <<>>]

\* whatsapp_client.terminate_all_calls(): every ongoing call is disconnected
TerminateAll(cs) ==
    [c \in Calls |-> IF cs[c].conn = "connected"
                     THEN [cs[c] EXCEPT !.conn = "disconnected"]
                     ELSE cs[c]]

\* ---- process lifecycle ----

\* run_server, lines 142-155: handlers installed, server task created
RunServerStart ==
    /\ pcMain = "start"
    /\ pcMain' = "wait"
    /\ serverState' = "created"
    /\ UNCHANGED <<whatsapp_client, shutdown_event, knowledge_context,
                   should_exit, lifespanPc, sigRunning, termLog, reqs, calls,
                   clientInvocations, loads, kvars, bvars>>

\* signal_handler, lines 52-54
SignalHandler ==
    /\ pcMain \in {"wait", "terminating", "join"}
    /\ shutdown_event' = TRUE
    /\ sigRunning' =
           (sigRunning \/ (~shutdown_event /\ serverState = "serving"))
    /\ UNCHANGED <<whatsapp_client, knowledge_context, should_exit, pcMain,
                   lifespanPc, serverState, termLog, reqs, calls,
                   clientInvocations, loads, kvars, bvars>>

\* lifespan, lines 59-73: the part before the yield
LifespanStartup ==
    /\ serverState = "created"
    /\ lifespanPc = "init"
    /\ knowledge_context' = LoadKnowledge(dirExists, dir).value
    /\ loads' = loads + 1
    /\ whatsapp_client' = "client"
    /\ lifespanPc' = "yielded"
    /\ serverState' = "serving"
    /\ UNCHANGED <<shutdown_event, should_exit, pcMain, sigRunning, termLog,
                   reqs, calls, clientInvocations, kvars, bvars>>

\* a plausible slip: the server is told to stop without terminating the calls
RunServerWakeNoTerminate ==
    /\ pcMain = "wait"
    /\ shutdown_event
    /\ should_exit' = TRUE
    /\ pcMain' = "join"
    /\ UNCHANGED <<calls, sigRunning, termLog, whatsapp_client,
                   shutdown_event, knowledge_context, lifespanPc,
                   serverState, reqs, clientInvocations, loads, kvars,
                   bvars>>

\* run_server, lines 155-160: the wait is over; terminate_all_calls is awaited
\* when there is a client, otherwise the server is told to stop at once
RunServerWake ==
    /\ pcMain = "wait"
    /\ shutdown_event
    /\ IF whatsapp_client # "None"
       THEN /\ calls' = TerminateAll(calls)
            /\ termLog' = Append(termLog, "main")
            /\ pcMain' = "terminating"
            /\ UNCHANGED should_exit
       ELSE /\ should_exit' = TRUE
            /\ pcMain' = "join"
            /\ UNCHANGED <<calls, termLog>>
    /\ UNCHANGED <<sigRunning, whatsapp_client, shutdown_event,
                   knowledge_context, lifespanPc, serverState, reqs,
                   clientInvocations, loads, kvars, bvars>>

\* run_server, lines 158-161: terminate_all_calls returned
RunServerStop ==
    /\ pcMain = "terminating"
    /\ should_exit' = TRUE
    /\ pcMain' = "join"
    /\ UNCHANGED <<whatsapp_client, shutdown_event, knowledge_context,
                   lifespanPc, serverState, sigRunning, termLog, reqs, calls,
                   clientInvocations, loads, kvars, bvars>>

\* run_server, line 161: the server task is over, asyncio.run returns
RunServerExit ==
    /\ pcMain = "join"
    /\ serverState = "stopped"
    /\ pcMain' = "done"
    /\ UNCHANGED <<whatsapp_client, shutdown_event, knowledge_context,
                   should_exit, lifespanPc, serverState, sigRunning, termLog,
                   reqs, calls, clientInvocations, loads, kvars, bvars>>

\* the server task sees should_exit before the application started
ServerAbort ==
    /\ serverState = "created"
    /\ should_exit
    /\ serverState' = "stopped"
    /\ UNCHANGED <<whatsapp_client, shutdown_event, knowledge_context,
                   should_exit, pcMain, lifespanPc, sigRunning, termLog,
                   reqs, calls, clientInvocations, loads, kvars, bvars>>

\* the server task sees should_exit (line 160) and begins its shutdown
ServerShutdown ==
    /\ serverState = "serving"
    /\ should_exit
    /\ serverState' = "stopping"
    /\ UNCHANGED <<whatsapp_client, shutdown_event, knowledge_context,
                   should_exit, pcMain, lifespanPc, sigRunning, termLog,
                   reqs, calls, clientInvocations, loads, kvars, bvars>>

\* the server shuts down for a reason of its own: lifespan exit alone
ServerShutdownAlone ==
    /\ serverState = "serving"
    /\ ~should_exit
    /\ serverState' = "stopping"
    /\ UNCHANGED <<whatsapp_client, shutdown_event, knowledge_context,
                   should_exit, pcMain, lifespanPc, sigRunning, termLog,
                   reqs, calls, clientInvocations, loads, kvars, bvars>>

\* lifespan, lines 74-77: the finally block, then the server task ends
LifespanExit ==
    /\ serverState = "stopping"
    /\ lifespanPc = "yielded"
    /\ IF whatsapp_client # "None"
       THEN /\ calls' = TerminateAll(calls)
            /\ termLog' = Append(termLog, "lifespan")
       ELSE UNCHANGED <<calls, termLog>>
    /\ lifespanPc' = "exited"
    /\ serverState' = "stopped"
    /\ UNCHANGED <<sigRunning, whatsapp_client, shutdown_event,
                   knowledge_context, should_exit, pcMain, reqs,
                   clientInvocations, loads, kvars, bvars>>

\* ---- the knowledge files change on disk ----
EditKnowledge(i) ==
    /\ pcMain # "done"
    /\ i # DirIx
    /\ dirExists' = ServerDirs[i].exists
    /\ dir' = ServerDirs[i].files
    /\ UNCHANGED <<kpc, loaded, bvars, svars>>

\* ---- GET / and GET /health ----

\* verify_webhook, lines 84-96: the client accepts or rejects the token
VerifyWebhook(tokenOk) ==
    /\ serverState = "serving"
    /\ tokenOk \in BOOLEAN
    /\ UNCHANGED <<whatsapp_client, shutdown_event, knowledge_context,
                   should_exit, pcMain, lifespanPc, serverState, sigRunning,
                   termLog, reqs, calls, clientInvocations, loads, kvars,
                   bvars>>

\* health, lines 136-138
Health ==
    /\ serverState = "serving"
    /\ UNCHANGED <<whatsapp_client, shutdown_event, knowledge_context,
                   should_exit, pcMain, lifespanPc, serverState, sigRunning,
                   termLog, reqs, calls, clientInvocations, loads, kvars,
                   bvars>>

\* ---- POST / ----
ObjectTypes == {"whatsapp_business_account", "other"}

\* a plausible slip: the knowledge is reloaded before the object type is
\* checked
HandleWebhookLoadFirst(r, object) ==
    /\ serverState = "serving"
    /\ reqs[r].pc = "none"
    /\ \A q \in Requests : q < r => reqs[q].pc # "none"
    /\ loads' = loads + 1
    /\ IF object # "whatsapp_business_account"
       THEN /\ reqs' = [reqs EXCEPT ![r].pc = "done", ![r].object = object,
                            ![r].status = 400, ![r].loaded = 1,
                            ![r].background = "dropped"]
            /\ UNCHANGED clientInvocations
       ELSE /\ reqs' = [reqs EXCEPT ![r].pc = "client", ![r].object = object,
                            ![r].current_knowledge =
                                LoadKnowledge(dirExists, dir).value,
                            ![r].dirIx = DirIx, ![r].loaded = 1,
                            ![r].clientCalls = 1]
            /\ clientInvocations' = clientInvocations + 1
    /\ UNCHANGED <<whatsapp_client, shutdown_event, knowledge_context,
                   should_exit, pcMain, lifespanPc, serverState, sigRunning,
                   termLog, calls, kvars, bvars>>

\* a plausible slip: the handler declares the knowledge global and stores
\* the reloaded text in it
HandleWebhookGlobal(r, object) ==
    /\ serverState = "serving"
    /\ reqs[r].pc = "none"
    /\ \A q \in Requests : q < r => reqs[q].pc # "none"
    /\ IF object # "whatsapp_business_account"
       THEN /\ reqs' = [reqs EXCEPT ![r].pc = "done", ![r].object = object,
                            ![r].status = 400, ![r].background = "dropped"]
            /\ UNCHANGED <<loads, clientInvocations, knowledge_context>>
       ELSE /\ reqs' = [reqs EXCEPT ![r].pc = "client", ![r].object = object,
                            ![r].current_knowledge =
                                LoadKnowledge(dirExists, dir).value,
                            ![r].dirIx = DirIx, ![r].loaded = 1,
                            ![r].clientCalls = 1]
            /\ knowledge_context' = LoadKnowledge(dirExists, dir).value
            /\ loads' = loads + 1
            /\ clientInvocations' = clientInvocations + 1
    /\ UNCHANGED <<whatsapp_client, shutdown_event, should_exit, pcMain,
                   lifespanPc, serverState, sigRunning, termLog, calls,
                   kvars, bvars>>

\* handle_webhook, lines 100-125, up to the await of handle_webhook_request:
\* the object type is checked, the knowledge is reloaded into a local, the
\* callback is defined and the client is called
HandleWebhook(r, object) ==
    /\ serverState = "serving"
    /\ reqs[r].pc = "none"
    /\ \A q \in Requests : q < r => reqs[q].pc # "none"
    /\ IF object # "whatsapp_business_account"
       THEN /\ reqs' = [reqs EXCEPT ![r].pc = "done", ![r].object = object,
                            ![r].status = 400, ![r].background = "dropped"]
            /\ UNCHANGED <<loads, clientInvocations>>
       ELSE /\ reqs' = [reqs EXCEPT ![r].pc = "client", ![r].object = object,
                            ![r].current_knowledge =
                                LoadKnowledge(dirExists, dir).value,
                            ![r].dirIx = DirIx, ![r].loaded = 1,
                            ![r].clientCalls = 1]
            /\ loads' = loads + 1
            /\ clientInvocations' = clientInvocations + 1
    /\ UNCHANGED <<whatsapp_client, shutdown_event, knowledge_context,
                   should_exit, pcMain, lifespanPc, serverState, sigRunning,
                   termLog, calls, kvars, bvars>>

\* a plausible slip: the session is given the global loaded at startup
ConnectionCallbackGlobal(r, c) ==
    /\ reqs[r].pc = "client"
    /\ calls[c].state = "free"
    /\ \A b \in Calls : b < c => calls[b].state # "free"
    /\ calls' = [calls EXCEPT ![c] =
                    [state |-> "accepted", conn |-> "connected", req |-> r,
                     bot |-> "scheduled", knowledge |-> knowledge_context]]
    /\ reqs' = [reqs EXCEPT ![r].tasks = Append(@, c)]
    /\ UNCHANGED <<whatsapp_client, shutdown_event, knowledge_context,
                   should_exit, pcMain, lifespanPc, serverState, sigRunning,
                   termLog, clientInvocations, loads, kvars, bvars>>

\* the client accepts call c of request r and awaits connection_callback,
\* lines 113-116: run_bot is added to the request's background tasks with
\* the connection and the knowledge of this request
ConnectionCallback(r, c) ==
    /\ reqs[r].pc = "client"
    /\ calls[c].state = "free"
    /\ \A b \in Calls : b < c => calls[b].state # "free"
    /\ calls' = [calls EXCEPT ![c] =
                    [state |-> "accepted", conn |-> "connected", req |-> r,
                     bot |-> "scheduled",
                     knowledge |-> reqs[r].current_knowledge]]
    /\ reqs' = [reqs EXCEPT ![r].tasks = Append(@, c)]
    /\ UNCHANGED <<whatsapp_client, shutdown_event, knowledge_context,
                   should_exit, pcMain, lifespanPc, serverState, sigRunning,
                   termLog, clientInvocations, loads, kvars, bvars>>

\* handle_webhook, line 126: the client returned; the response carries the
\* background tasks, which the framework runs after sending it
WebhookSuccess(r) ==
    /\ reqs[r].pc = "client"
    /\ reqs' = [reqs EXCEPT ![r].pc = "done", ![r].status = 200,
                    ![r].background = "kept"]
    /\ UNCHANGED <<whatsapp_client, shutdown_event, knowledge_context,
                   should_exit, pcMain, lifespanPc, serverState, sigRunning,
                   termLog, calls, clientInvocations, loads, kvars, bvars>>

\* handle_webhook, lines 127-132: the client raised; HTTPException is raised,
\* the error response is built by the exception handler and carries no
\* background tasks, so the tasks added so far are never run
WebhookError(r, exception) ==
    /\ reqs[r].pc = "client"
    /\ reqs' = [reqs EXCEPT ![r].pc = "done",
                    ![r].status = IF exception = "ValueError" THEN 400
                                  ELSE 500,
                    ![r].background = "dropped"]
    /\ calls' = [c \in Calls |->
                    IF calls[c].req = r /\ calls[c].bot = "scheduled"
                    THEN [calls[c] EXCEPT !.bot = "dropped"]
                    ELSE calls[c]]
    /\ UNCHANGED <<whatsapp_client, shutdown_event, knowledge_context,
                   should_exit, pcMain, lifespanPc, serverState, sigRunning,
                   termLog, clientInvocations, loads, kvars, bvars>>

\* ---- background tasks: run_bot ----

\* the framework starts the next background task of request r; run_bot,
\* bot.py lines 46-128, either builds the session and awaits the runner
\* or raises while building it
RunBot(r, ok) ==
    /\ reqs[r].background = "kept"
    /\ reqs[r].next <= Len(reqs[r].tasks)
    /\ LET c == reqs[r].tasks[reqs[r].next]
       IN  /\ calls[c].bot = "scheduled"
           /\ calls' = [calls EXCEPT ![c].bot = IF ok THEN "running"
                                                ELSE "failed"]
           /\ reqs' = IF ok THEN reqs
                      ELSE [reqs EXCEPT ![r].background = "aborted"]
    /\ UNCHANGED <<whatsapp_client, shutdown_event, knowledge_context,
                   should_exit, pcMain, lifespanPc, serverState, sigRunning,
                   termLog, clientInvocations, loads, kvars, bvars>>

\* the call is over; on_disconnected cancelled the pipeline task and
\* runner.run returns (bot.py line 128): the next task of r may start
RunBotReturns(r) ==
    /\ reqs[r].background = "kept"
    /\ reqs[r].next <= Len(reqs[r].tasks)
    /\ LET c == reqs[r].tasks[reqs[r].next]
       IN  /\ calls[c].bot = "running"
           /\ calls[c].conn = "disconnected"
           /\ calls' = [calls EXCEPT ![c].bot = "finished"]
           /\ reqs' = [reqs EXCEPT ![r].next = @ + 1]
    /\ UNCHANGED <<whatsapp_client, shutdown_event, knowledge_context,
                   should_exit, pcMain, lifespanPc, serverState, sigRunning,
                   termLog, clientInvocations, loads, kvars, bvars>>

\* the caller hangs up
CallerHangsUp(c) ==
    /\ calls[c].conn = "connected"
    /\ calls' = [calls EXCEPT ![c].conn = "disconnected"]
    /\ UNCHANGED <<whatsapp_client, shutdown_event, knowledge_context,
                   should_exit, pcMain, lifespanPc, serverState, sigRunning,
                   termLog, reqs, clientInvocations, loads, kvars, bvars>>

(***************************************************************************)
(* Specifications                                                          *)
(***************************************************************************)
InitKnowledge ==
    /\ kpc = "idle"
    /\ loaded = [raised |-> FALSE, value |-> <<>>]

InitSession ==
    /\ call_metadata = NoMetadata
    /\ events = <<>>
    /\ handlers = <<>>
    /\ cancelRequests = 0
    /\ queuedFrames = 0
    /\ notifications = <<>>

InitServer ==
    /\ whatsapp_client = "None"
    /\ shutdown_event = FALSE
    /\ knowledge_context = <<>>
    /\ should_exit = FALSE
    /\ pcMain = "start"
    /\ lifespanPc = "init"
    /\ serverState = "none"
    /\ sigRunning = FALSE
    /\ termLog = <<>>
    /\ reqs = [r \in Requests |-> NoRequest]
    /\ calls = [c \in Calls |-> NoCall]
    /\ clientInvocations = 0
    /\ loads = 0

\* the server process
Init ==
    /\ dirExists = ServerDirs[1].exists
    /\ dir = ServerDirs[1].files
    /\ hookUrl = NoUrl
    /\ InitKnowledge
    /\ InitSession
    /\ InitServer

\* POST / and the acceptance callback of request r
Webhook(r) ==
    \/ \E object \in ObjectTypes : HandleWebhook(r, object)
    \/ \E c \in Calls : ConnectionCallback(r, c)
    \/ WebhookSuccess(r)
    \/ \E e \in {"ValueError", "Exception"} : WebhookError(r, e)

\* the background tasks of request r
Background(r) ==
    \/ \E ok \in BOOLEAN : RunBot(r, ok)
    \/ RunBotReturns(r)

\* webhook ingestion: the process from its start on, while it takes
\* concurrent requests and the knowledge files change
Next ==
    \/ RunServerStart
    \/ LifespanStartup
    \/ \E i \in 1..Len(ServerDirs) : EditKnowledge(i)
    \/ \E tokenOk \in BOOLEAN : VerifyWebhook(tokenOk)
    \/ Health
    \/ \E r \in Requests : Webhook(r)

Spec == Init /\ [][Next]_vars

\* the whole life of the process, startup to exit: one request, its calls
\* and their bot sessions
NextLife ==
    \/ \E i \in 1..Len(ServerDirs) : EditKnowledge(i)
    \/ \E tokenOk \in BOOLEAN : VerifyWebhook(tokenOk)
    \/ Health
    \/ RunServerStart
    \/ LifespanStartup
    \/ SignalHandler
    \/ RunServerWake
    \/ RunServerStop
    \/ RunServerExit
    \/ ServerAbort
    \/ ServerShutdown
    \/ ServerShutdownAlone
    \/ LifespanExit
    \/ Webhook(1)
    \/ Background(1)
    \/ \E c \in Calls : CallerHangsUp(c)

SpecLife == Init /\ [][NextLife]_vars

\* the scheduling the event loop guarantees: a coroutine that can run does
FairLife ==
    /\ WF_vars(RunServerWake)
    /\ WF_vars(RunServerStop)
    /\ WF_vars(RunServerExit)
    /\ WF_vars(LifespanStartup)
    /\ WF_vars(ServerAbort)
    /\ WF_vars(ServerShutdown)
    /\ WF_vars(LifespanExit)

FairSpecLife == SpecLife /\ FairLife

\* one bot session and its notifier
InitBot ==
    /\ dirExists = ServerDirs[1].exists
    /\ dir = ServerDirs[1].files
    /\ hookUrl \in {NoUrl, SomeUrl}
    /\ InitKnowledge
    /\ InitSession
    /\ InitServer

NextBot ==
    \/ OnConnected
    \/ OnDisconnected
    \/ \E i \in 1..Len(handlers) : QueueFramesReturn(i)
    \/ \E i \in 1..Len(handlers) : CancelReturn(i)
    \/ \E i \in 1..Len(handlers), o \in PostOutcomes : PostDone(i, o)

SpecBot == InitBot /\ [][NextBot]_vars

\* the loader applied to an arbitrary directory
InitLoader ==
    /\ dirExists \in BOOLEAN
    /\ dir \in KnowledgeDirs
    /\ ~dirExists => dir = NoDir
    /\ hookUrl = NoUrl
    /\ InitKnowledge
    /\ InitSession
    /\ InitServer

NextLoader == KLoad

SpecLoader == InitLoader /\ [][NextLoader]_vars

(***************************************************************************)
(* Properties of the knowledge loader (SpecLoader)                         *)
(***************************************************************************)
IsMarkdown(f) ==
    /\ Len(f) >= 3
    /\ SubSeq(f, Len(f) - 2, Len(f)) = <<".", "m", "d">>

\* the content without its leading and trailing whitespace
Trimmed(text) ==
    CHOOSE t \in {SubSeq(text, i, j) : i \in 1..Len(text) + 1,
                                       j \in 0..Len(text)} :
        \E i \in 1..Len(text) + 1, j \in 0..Len(text) :
            /\ t = SubSeq(text, i, j)
            /\ \A k \in 1..Len(text) :
                (k < i \/ k > j) => text[k] \in Whitespace
            /\ t # <<>> => t[1] \notin Whitespace /\ t[Len(t)] \notin Whitespace

Contributing ==
    IF ~dirExists THEN {}
    ELSE {f \in FileNames : /\ IsMarkdown(f)
                            /\ dir[f].present
                            /\ dir[f].readable
                            /\ Trimmed(dir[f].text) # <<>>}

ExpectedBlock(f) ==
    <<"-", "-", "-", " ">> \o Upper(Stem(f)) \o <<" ", "-", "-", "-">>
        \o <<"\n">> \o Trimmed(dir[f].text)

RECURSIVE ExpectedUpTo(_, _)
ExpectedUpTo(order, n) ==
    IF n = 0 THEN <<>>
    ELSE IF n = 1 THEN ExpectedBlock(order[1])
    ELSE ExpectedUpTo(order, n - 1) \o <<"\n", "\n">> \o ExpectedBlock(order[n])

ExpectedKnowledge ==
    LET n == Cardinality(Contributing)
        order == CHOOSE o \in [1..n -> Contributing] :
                    \A i, j \in 1..n : i < j => StrLess(o[i], o[j])
    IN  ExpectedUpTo(order, n)

\* C8: load_knowledge never raises and returns one block per markdown file
\* whose read succeeds and whose trimmed content is non-empty, in ascending
\* file-name order, each block the header "--- <UPPERCASE STEM> ---", a
\* newline and the trimmed content, the blocks joined by a blank line; other
\* files contribute nothing; a missing directory or one without contributing
\* files gives the empty string.
C8_LoaderOutput ==
    kpc = "done" =>
        /\ ~loaded.raised
        /\ loaded.value = ExpectedKnowledge
        /\ (Contributing = {} => loaded.value = <<>>)

C8_Witness ==
    /\ kpc = "done"
    /\ dirExists
    /\ ~dir[FileA].readable /\ dir[FileA].present
    /\ dir[FileB] = File(<<" ", "x">>)
    /\ dir[FileUpperB] = File(<<"x", " ", "x">>)
    /\ dir[FileTxt].present
    /\ loaded.value =
          <<"-", "-", "-", " ", "B", " ", "-", "-", "-", "\n", "x", " ", "x",
            "\n", "\n",
            "-", "-", "-", " ", "B", " ", "-", "-", "-", "\n", "x">>

(***************************************************************************)
(* Properties of a bot session and its notifier (SpecBot)                  *)
(***************************************************************************)
NotificationsOf(i) ==
    {k \in 1..Len(notifications) : notifications[k].handler = i}

\* the time of the last event of the given kind among the first n events
LastEventAt(kind, n) ==
    LET at == {k \in 1..n : events[k] = kind}
    IN  IF at = {} THEN 0 ELSE CHOOSE k \in at : \A m \in at : m <= k

C4_NotifierNeverRaises ==
    \A k \in 1..Len(notifications) :
        LET n == notifications[k]
        IN  /\ n.state # "raised"
            /\ hookUrl = NoUrl => n.posts = 0 /\ n.state = "returned"
            /\ hookUrl # NoUrl =>
                  /\ n.posts = 1
                  /\ n.payload = [event |-> "call_ended",
                                  connected_at |-> n.arg.connected_at,
                                  disconnected_at |-> n.arg.disconnected_at]
            /\ handlers[n.handler].pc = "done" => n.state = "returned"

C4_Witness ==
    /\ hookUrl = SomeUrl
    /\ Len(notifications) = 2
    /\ notifications[1].outcome = "timeout"
    /\ notifications[2].outcome = "non200"
    /\ \A k \in 1..2 : /\ notifications[k].state = "returned"
                       /\ notifications[k].posts = 1
                       /\ handlers[notifications[k].handler].pc = "done"
                       /\ handlers[notifications[k].handler].result =
                             "returned"

\* C10: over the lifetime of a session the notifier is invoked at most once,
\* never before a disconnect event, and when it is invoked disconnected_at is
\* set and connected_at is set exactly if a connect event came earlier.
C10_ConsumedOnce ==
    /\ Len(notifications) <= 1
    /\ \A k \in 1..Len(notifications) :
        LET n == notifications[k]
        IN  /\ LastEventAt("disconnect", n.eventsBefore) # 0
            /\ n.arg.disconnected_at # 0
            /\ n.arg.connected_at # 0 <=>
                  LastEventAt("connect", n.eventsBefore) # 0

(***************************************************************************)
(* Properties of webhook ingestion (Spec)                                  *)
(***************************************************************************)
ValidRequests ==
    {r \in Requests : reqs[r].object = "whatsapp_business_account"}

CallsOf(r) == {c \in Calls : calls[c].req = r}

\* C2: a POST whose object is not "whatsapp_business_account" is answered
\* 400 and, in that request, the client's call acceptance is not invoked,
\* the knowledge directory is not re-read and no bot session is scheduled.
C2_InvalidObjectRejected ==
    /\ \A r \in Requests :
        reqs[r].object = "other" =>
            /\ reqs[r].pc = "done"
            /\ reqs[r].status = 400
            /\ reqs[r].clientCalls = 0
            /\ reqs[r].loaded = 0
            /\ reqs[r].tasks = <<>>
            /\ CallsOf(r) = {}
    /\ clientInvocations = Cardinality(ValidRequests)
    /\ loads = (IF lifespanPc = "init" THEN 0 ELSE 1)
                  + Cardinality(ValidRequests)

C2_Witness ==
    /\ reqs[1].object = "whatsapp_business_account"
    /\ reqs[1].status = 200
    /\ CallsOf(1) # {}
    /\ reqs[2].object = "other"
    /\ reqs[2].status = 400
    /\ loads = 2
    /\ clientInvocations = 1

\* the text load_knowledge gave for the directory as request r found it
KnowledgeAt(r) ==
    LoadKnowledge(ServerDirs[reqs[r].dirIx].exists,
                  ServerDirs[reqs[r].dirIx].files).value

\* C7: the knowledge string handed to a bot session is the one rebuilt from
\* the directory during the request that accepted its call, not the one
\* loaded at startup or by another request.
C7_SessionKnowledge ==
    \A c \in Calls :
        calls[c].state = "accepted" =>
            /\ reqs[calls[c].req].dirIx \in 1..Len(ServerDirs)
            /\ calls[c].knowledge = KnowledgeAt(calls[c].req)

C7_Witness ==
    /\ reqs[1].pc = "client"
    /\ reqs[2].pc = "client"
    /\ calls[1].state = "accepted" /\ calls[1].req = 1
    /\ calls[2].state = "accepted" /\ calls[2].req = 2
    /\ calls[1].knowledge # calls[2].knowledge
    /\ calls[1].knowledge # knowledge_context
    /\ calls[2].knowledge = knowledge_context

(***************************************************************************)
(* Properties of the process lifetime (SpecLife, FairSpecLife)             *)
(***************************************************************************)
Occurrences(seq, x) == Cardinality({k \in 1..Len(seq) : seq[k] = x})

InLog(who) == \E k \in 1..Len(termLog) : termLog[k] = who

\* C1: every call for which the acceptance callback ran has exactly one
\* run_bot task scheduled, and that task is started: it is neither discarded
\* with the response nor left behind by the request's other tasks.
C1_EveryAcceptedCallGetsBot ==
    \A c \in Calls :
        calls[c].state = "accepted" =>
            /\ Occurrences(reqs[calls[c].req].tasks, c) = 1
            /\ calls[c].bot # "dropped"
            /\ ~(reqs[calls[c].req].background = "aborted"
                    /\ calls[c].bot = "scheduled")

\* C6: when setting up the bot session of an accepted call fails, the
\* call's connection is disconnected, so that no accepted call stays
\* connected without a bot session.
C6_SetupFailureDisconnects ==
    \A c \in Calls :
        calls[c].bot = "failed" => calls[c].conn = "disconnected"

\* C5: once the shutdown signal has reached the running server, the main
\* coroutine tells the server to stop only after it asked the client to
\* terminate all calls; a server that ran stops only after the calls were
\* terminated, also when it shuts down through the lifespan exit alone; and
\* after the signal the main coroutine eventually exits.
C5_TerminateBeforeStop ==
    /\ sigRunning /\ should_exit => InLog("main")
    /\ pcMain \in {"terminating", "join", "done"} /\ sigRunning =>
          InLog("main")
    /\ serverState = "stopped" /\ lifespanPc # "init" => termLog # <<>>
    /\ lifespanPc = "exited" => InLog("lifespan")

C5_Shutdown ==
    /\ []C5_TerminateBeforeStop
    /\ sigRunning ~> InLog("main")
    /\ sigRunning ~> (pcMain = "done" /\ serverState = "stopped")

C5_Witness ==
    /\ sigRunning
    /\ pcMain = "done"
    /\ termLog = <<"main", "lifespan">>
    /\ calls[1].bot = "finished"
    /\ calls[1].conn = "disconnected"

\* C9: the client handle and the knowledge global change only in the
\* startup part of the lifespan, the shutdown flag only in the signal
\* handler; no request handler, callback or bot session changes them.
C9_GlobalsFrame ==
    [][ /\ (whatsapp_client' # whatsapp_client
                \/ knowledge_context' # knowledge_context) =>
              (lifespanPc = "init" /\ lifespanPc' = "yielded")
        /\ shutdown_event' # shutdown_event =>
              /\ pcMain' = pcMain
              /\ lifespanPc' = lifespanPc
              /\ serverState' = serverState
              /\ should_exit' = should_exit
              /\ reqs' = reqs
              /\ calls' = calls
              /\ termLog' = termLog ]_vars

C9_Witness ==
    /\ shutdown_event
    /\ whatsapp_client = "client"
    /\ reqs[1].status = 200
    /\ calls[1].bot = "running"
    /\ calls[1].knowledge # knowledge_context

====
